---- MODULE Spec2Model ----
(***************************************************************************)
(* Model of app.py, the Streamlit file categorization tool.                *)
(*                                                                         *)
(* Text is modelled as a sequence of atoms (an atom is a string that the   *)
(* model never looks into): a path typed by the user is a sequence of      *)
(* one-character atoms, a file name such as <<"a.txt">> is a sequence of   *)
(* one atom or of several, as the operation at hand needs.                 *)
(***************************************************************************)
EXTENDS Integers, Sequences, FiniteSets, TLC

(***************************************************************************)
(* Bounds of the model.                                                    *)
(***************************************************************************)
\* Files a directory listing holds at most.
MaxFiles == 2
\* Length of a typed directory path, in characters, at most.
MaxPathLen == 3

(***************************************************************************)
(* Program constants.                                                      *)
(***************************************************************************)
\* categories, app.py line 254
Categories == <<"CONTRACTUAL", "ARCHITECTURAL", "STRUCTURAL", "SERVICES", "SAFETY", "OTHER">>

\* the keys of generated_files, in the order the handlers fill them
Formats == <<"excel", "word", "pdf">>

FormatSet == {Formats[k] : k \in DOMAIN Formats}

\* headers, app.py lines 114-115, 159 and 200
Headers == << <<"Category / File Name">>, <<"Last Modified">> >>

None == "None"

(***************************************************************************)
(* Python dict, as a sequence of entries with unique names (insertion      *)
(* order), each entry [name, modified_time, category].                     *)
(***************************************************************************)
DictHas(d, name) == \E i \in DOMAIN d : d[i].name = name

\* d[name] = (modified_time, category): a new key is appended, a present key
\* keeps its place and takes the new value
DictSet(d, name, modified_time, category) ==
    LET e == [name |-> name, modified_time |-> modified_time, category |-> category]
    IN  IF DictHas(d, name)
        THEN [i \in DOMAIN d |-> IF d[i].name = name THEN e ELSE d[i]]
        ELSE Append(d, e)

\* d1 == d2 on Python dicts: the same keys with the same values, in any order
DictEq(d1, d2) == {d1[i] : i \in DOMAIN d1} = {d2[i] : i \in DOMAIN d2}

(***************************************************************************)
(* The Assign Categories loop, app.py lines 306-320.                       *)
(***************************************************************************)
RECURSIVE AssignLoop(_, _, _, _)
AssignLoop(its, selectbox, index, acc) ==
    IF index > Len(its) THEN acc
    ELSE AssignLoop(its, selectbox, index + 1,
                    DictSet(acc, its[index].name, its[index].modified_time, selectbox[index]))

AssignCategories(its, selectbox) == AssignLoop(its, selectbox, 1, <<>>)

(***************************************************************************)
(* categorized_data, app.py lines 259-261 and 330-332: a dict keyed by     *)
(* category in the order of categories, as a sequence of                   *)
(* [category, items].                                                      *)
(***************************************************************************)
EmptyGroups == [k \in DOMAIN Categories |-> [category |-> Categories[k], items |-> <<>>]]

\* categorized_data[category].insert(0, (name, modified_time))
GroupAppendFront(cd, category, pair) ==
    [k \in DOMAIN cd |->
        IF cd[k].category = category
        THEN [cd[k] EXCEPT !.items = <<pair>> \o @]
        ELSE cd[k]]

\* categorized_data[category].append((name, modified_time))
GroupAppend(cd, category, pair) ==
    [k \in DOMAIN cd |->
        IF cd[k].category = category
        THEN [cd[k] EXCEPT !.items = Append(@, pair)]
        ELSE cd[k]]

RECURSIVE GroupLoop(_, _, _)
GroupLoop(store, i, cd) ==
    IF i > Len(store) THEN cd
    ELSE GroupLoop(store, i + 1,
                   GroupAppend(cd, store[i].category,
                               <<store[i].name, store[i].modified_time>>))

\* a grouping that takes the first option for "not assigned" and leaves it out
CategorizedDataChosenOnly(store) ==
    GroupLoop(SelectSeq(store, LAMBDA e : e.category # Categories[1]), 1, EmptyGroups)

CategorizedData(store) == GroupLoop(store, 1, EmptyGroups)

(***************************************************************************)
(* The renderers.  A buffer is modelled by the table it holds: a sequence  *)
(* of rows, each row a pair of cell texts.                                 *)
(***************************************************************************)
FileRows(its, indent) ==
    [j \in DOMAIN its |-> <<indent \o its[j][1], <<its[j][2]>> >>]

\* the loop shared by the three renderers, lines 125-137, 161-166, 189-193:
\* a category with no items is skipped
RECURSIVE DataRows(_, _, _)
DataRows(cd, k, indent) ==
    IF k > Len(cd) THEN <<>>
    ELSE (IF cd[k].items # <<>>
          THEN << <<<<cd[k].category>>, <<>> >> >> \o FileRows(cd[k].items, indent)
          ELSE <<>>)
         \o DataRows(cd, k + 1, indent)

Blank == << <<>>, <<>> >>

\* worksheet.cell(row=r, ...) on both columns: the sheet grows to row r
SetRow(ws, r, row) ==
    [q \in 1..(IF r > Len(ws) THEN r ELSE Len(ws)) |->
        IF q = r THEN row ELSE IF q <= Len(ws) THEN ws[q] ELSE Blank]

\* df.to_excel(writer, index=False, startrow=1), line 198: pandas writes the
\* column header in sheet row 2 and data row i (from 0) in sheet row i + 3;
\* an empty frame has no columns and writes nothing
ToExcel(data) ==
    IF data = <<>> THEN <<>>
    ELSE [q \in 1..(Len(data) + 2) |->
            IF q = 1 THEN Blank ELSE IF q = 2 THEN Headers ELSE data[q - 2]]

\* for index, row in df.iterrows(): worksheet.cell(row=index + 2, ...), lines 208-210
RECURSIVE IterRows(_, _, _)
IterRows(ws, data, index) ==
    IF index >= Len(data) THEN ws
    ELSE IterRows(SetRow(ws, index + 2, data[index + 1]), data, index + 1)

\* generate_excel, lines 187-213
GenerateExcel(cd) ==
    LET data == DataRows(cd, 1, <<"   ">>)
    IN  [kind |-> "excel", rows |-> IterRows(SetRow(ToExcel(data), 1, Headers), data, 0)]

\* generate_word, lines 99-147
GenerateWord(cd) == [kind |-> "word", rows |-> <<Headers>> \o DataRows(cd, 1, <<>>)]

\* generate_pdf, lines 151-183
GeneratePdf(cd) == [kind |-> "pdf", rows |-> <<Headers>> \o DataRows(cd, 1, <<>>)]

Render(f, cd) ==
    CASE f = "excel" -> GenerateExcel(cd)
      [] f = "word"  -> GenerateWord(cd)
      [] OTHER       -> GeneratePdf(cd)

(***************************************************************************)
(* Paths.  os.path is the POSIX one of the server the script runs on: "/"  *)
(* separates, a backslash is an ordinary character.                        *)
(***************************************************************************)
StartsWith(s, pre) == Len(pre) <= Len(s) /\ SubSeq(s, 1, Len(pre)) = pre

Drop(s, n) == SubSeq(s, n + 1, Len(s))

\* s.split("/")
RECURSIVE Split(_, _, _)
Split(s, i, cur) ==
    IF i > Len(s) THEN <<cur>>
    ELSE IF s[i] = "/" THEN <<cur>> \o Split(s, i + 1, <<>>)
    ELSE Split(s, i + 1, Append(cur, s[i]))

\* "/".join(comps)
RECURSIVE JoinComps(_, _)
JoinComps(comps, i) ==
    IF i > Len(comps) THEN <<>>
    ELSE comps[i] \o (IF i < Len(comps) THEN <<"/">> ELSE <<>>) \o JoinComps(comps, i + 1)

\* the component loop of posixpath.normpath
RECURSIVE NormComps(_, _, _, _)
NormComps(comps, i, initial_slashes, new_comps) ==
    IF i > Len(comps) THEN new_comps
    ELSE LET comp == comps[i] IN
         IF comp = <<>> \/ comp = <<".">>
         THEN NormComps(comps, i + 1, initial_slashes, new_comps)
         ELSE IF \/ comp # <<".", ".">>
                 \/ (initial_slashes = 0 /\ new_comps = <<>>)
                 \/ (new_comps # <<>> /\ new_comps[Len(new_comps)] = <<".", ".">>)
         THEN NormComps(comps, i + 1, initial_slashes, Append(new_comps, comp))
         ELSE IF new_comps # <<>>
         THEN NormComps(comps, i + 1, initial_slashes, SubSeq(new_comps, 1, Len(new_comps) - 1))
         ELSE NormComps(comps, i + 1, initial_slashes, new_comps)

\* os.path.normpath, as called at lines 43, 70 and 81
NormPath(path) ==
    IF path = <<>> THEN <<".">>
    ELSE LET initial_slashes ==
                 IF ~StartsWith(path, <<"/">>) THEN 0
                 ELSE IF StartsWith(path, <<"/", "/">>) /\ ~StartsWith(path, <<"/", "/", "/">>)
                 THEN 2 ELSE 1
             body == JoinComps(NormComps(Split(path, 1, <<>>), 1, initial_slashes, <<>>), 1)
             out == [k \in 1..initial_slashes |-> "/"] \o body
         IN  IF out = <<>> THEN <<".">> ELSE out

\* os.path.join(root, name), line 43
Join(root, name) ==
    IF StartsWith(name, <<"/">>) THEN name
    ELSE IF root = <<>> \/ root[Len(root)] = "/" THEN root \o name
    ELSE root \o <<"/">> \o name

(***************************************************************************)
(* The filesystem: the directory "/" (the process's working directory      *)
(* too) holds the directory "x"; no other directory exists.  A tree gives  *)
(* the files of both, [root |-> ..., x |-> ...], each a sequence of        *)
(* [name, stat] in the order os.walk lists them; stat is the date          *)
(* getmtime leads to, or "OSError".                                        *)
(***************************************************************************)
\* the absolute path a path names: relative paths start at "/", and a
\* leading "//" is "/"
Canon(path) ==
    LET abs == NormPath(IF StartsWith(path, <<"/">>) THEN path ELSE <<"/">> \o path)
    IN  IF StartsWith(abs, <<"/", "/">>) THEN Drop(abs, 1) ELSE abs

FilePaths(tree) ==
    {<<"/">> \o tree.root[i].name : i \in DOMAIN tree.root}
    \cup {<<"/", "x", "/">> \o tree.x[i].name : i \in DOMAIN tree.x}

\* os.path.exists
Exists(path, tree) ==
    /\ path # <<>>
    /\ Canon(path) \in {<<"/">>, <<"/", "x">>} \cup FilePaths(tree)

\* os.walk(path), line 41, flattened to one [root, name, stat] per file
Walk(path, tree) ==
    IF Canon(path) = <<"/">>
    THEN [i \in DOMAIN tree.root |-> [root |-> path, name |-> tree.root[i].name,
                                      stat |-> tree.root[i].stat]]
         \o [i \in DOMAIN tree.x |-> [root |-> Join(path, <<"x">>), name |-> tree.x[i].name,
                                      stat |-> tree.x[i].stat]]
    ELSE IF Canon(path) = <<"/", "x">>
    THEN [i \in DOMAIN tree.x |-> [root |-> path, name |-> tree.x[i].name,
                                   stat |-> tree.x[i].stat]]
    ELSE <<>>

\* the least index at which old occurs in s, 0 if none
Find(s, old) ==
    LET at == {i \in 1..(Len(s) - Len(old) + 1) : SubSeq(s, i, i + Len(old) - 1) = old}
    IN  IF at = {} THEN 0 ELSE CHOOSE i \in at : \A j \in at : i <= j

\* s.replace(old, new, 1), line 44: the first occurrence, wherever it is
ReplaceFirst(s, old, new) ==
    LET i == Find(s, old)
    IN  IF i = 0 THEN s
        ELSE SubSeq(s, 1, i - 1) \o new \o Drop(s, i + Len(old) - 1)

\* lines 45-50
ModifiedTime(stat) == IF stat = "OSError" THEN "Unavailable" ELSE stat

\* the body of the loop of get_files, lines 43-53
FileRecord(path, original_path, w) ==
    LET full_path == NormPath(Join(w.root, w.name))
    IN  [name |-> w.name,
         modified_time |-> ModifiedTime(w.stat),
         full_path |-> full_path,
         relative_full_path |-> ReplaceFirst(full_path, path, original_path)]

\* get_files, lines 28-55
GetFiles(path, original_path, tree) ==
    IF ~Exists(path, tree) THEN [raised |-> "ValueError", items |-> <<>>]
    ELSE LET walk == Walk(path, tree)
         IN  [raised |-> None,
              items |-> [i \in DOMAIN walk |-> FileRecord(path, original_path, walk[i])]]

\* drive_mappings, lines 73-76; UNC_PATH is os.getenv('UNC_PATH'), None when unset
DriveMapping(drive_letter, UNC_PATH) ==
    IF drive_letter = <<"Z", ":">> THEN UNC_PATH
    ELSE <<"\\", "\\", "Server", "\\", "SharedDrive">>

DriveLetters == {<<"Z", ":">>, <<"Y", ":">>}

\* resolve_path, lines 58-96
ResolvePath(directory, UNC_PATH, tree) ==
    LET path == NormPath(directory)
        drive_letter == SubSeq(path, 1, IF Len(path) < 2 THEN Len(path) ELSE 2)
    IN  IF drive_letter \in DriveLetters
        THEN IF DriveMapping(drive_letter, UNC_PATH) = None
             THEN \* None + path[2:]
                  [raised |-> "TypeError", path |-> None]
             ELSE LET unc_path == NormPath(DriveMapping(drive_letter, UNC_PATH) \o Drop(path, 2))
                  IN  IF ~Exists(unc_path, tree)
                      THEN [raised |-> "ValueError", path |-> None]
                      ELSE [raised |-> None, path |-> unc_path]
        ELSE IF StartsWith(path, <<"\\", "\\">>)
        THEN IF ~Exists(path, tree)
             THEN [raised |-> "ValueError", path |-> None]
             ELSE [raised |-> None, path |-> path]
        ELSE IF ~Exists(path, tree)
        THEN [raised |-> "ValueError", path |-> None]
        ELSE [raised |-> None, path |-> path]

(***************************************************************************)
(* The session.  Streamlit runs the script from top to bottom once per     *)
(* widget interaction; st.session_state and the widgets' values outlive a  *)
(* run, the script's own variables do not.                                 *)
(***************************************************************************)
VARIABLES
    UNC_PATH,                    \* os.getenv('UNC_PATH'), None when unset
    directory_path,              \* the text input, line 220
    generate_option,             \* generate_<format>_option, lines 223-242
    generated_files,             \* st.session_state.generated_files, line 230
    session_category_selection,  \* st.session_state.category_selection, line 232
    selectbox,                   \* the value of selectbox_<index>, line 319
    touched,                     \* the selectors the user has changed
    resolved_path,               \* line 247 (None before it is set)
    items,                       \* line 251
    category_selection,          \* lines 255 and 320
    categorized_data,            \* lines 259 and 330 (<<>> when no handler ran)
    pressed,                     \* the Generate button that returned True: 0, 1, 2
    raised,                      \* the exception that ended the run, if any
    download1,                   \* the download buttons of lines 293-303
    download2                    \* the download buttons of lines 364-374

vars == <<UNC_PATH, directory_path, generate_option, generated_files,
          session_category_selection, selectbox, touched, resolved_path, items,
          category_selection, categorized_data, pressed, raised, download1, download2>>

NoFiles == [f \in {} |-> Blank]

NotRaised == [kind |-> None, at |-> None]

\* a handler that drops what is cached before it stores a buffer
ClearThenPut(files, f, buffer) == [g \in {f} |-> buffer]

\* generated_files[f] = buffer
PutFile(files, f, buffer) ==
    [g \in DOMAIN files \cup {f} |-> IF g = f THEN buffer ELSE files[g]]

\* lines 264-274 and 335-345: one renderer after the other, none guarded;
\* fails is the set of renderers that raise on this data, kind what they raise
RECURSIVE GenerateSelected(_, _, _, _, _, _)
GenerateSelected(k, cd, option, files, fails, kind) ==
    IF k > Len(Formats) THEN [files |-> files, raised |-> NotRaised]
    ELSE IF ~option[Formats[k]] THEN GenerateSelected(k + 1, cd, option, files, fails, kind)
    ELSE IF Formats[k] \in fails THEN [files |-> files, raised |-> [kind |-> kind, at |-> Formats[k]]]
    ELSE GenerateSelected(k + 1, cd, option,
                          PutFile(files, Formats[k], Render(Formats[k], cd)), fails, kind)

\* the body of "if st.button('Generate Selected Files')", lines 258-274, 329-345
Handler(store, option, files, fails, kind) ==
    LET cd == CategorizedData(store)
        g == GenerateSelected(1, cd, option, files, fails, kind)
    IN  [files |-> g.files, raised |-> g.raised, data |-> cd]

\* lines 277-303 and 348-374: a button per format that is selected and cached
Downloads(option, files) ==
    [f \in {g \in DOMAIN files : option[g]} |-> files[f]]

\* a comparison that takes the order of the entries into account
CompareByOrder(selection, store, files) ==
    IF selection # store
    THEN [store |-> selection, files |-> NoFiles]
    ELSE [store |-> store, files |-> files]

\* lines 323-326
Compare(selection, store, files) ==
    IF ~DictEq(selection, store)
    THEN [store |-> selection, files |-> NoFiles]
    ELSE [store |-> store, files |-> files]

\* One run of the script, lines 216-378, with the widgets returning option,
\* path, box and press, on a filesystem holding tree.  Each step's result is
\* bound once, in the order the script computes it.
Run(option, path, box, press, tree, fails, kind) ==
    \E r \in {IF path = <<>> THEN [raised |-> None, path |-> None]
             ELSE ResolvePath(path, UNC_PATH, tree)} :
    \E got \in {IF path = <<>> \/ r.raised # None THEN [raised |-> None, items |-> <<>>]
               ELSE GetFiles(r.path, path, tree)} :
    \E early \in {IF r.raised # None THEN [kind |-> r.raised, at |-> "resolve_path"]
                 ELSE IF got.raised # None THEN [kind |-> got.raised, at |-> "get_files"]
                 ELSE NotRaised} :
    \E listed \in {got.items # <<>>} :
    \E h1 \in {IF listed /\ press = 1
              THEN Handler(session_category_selection, option, generated_files, fails, kind)
              ELSE [files |-> generated_files, raised |-> NotRaised, data |-> <<>>]} :
    \E on \in {listed /\ h1.raised = NotRaised} :
    \E selection \in {IF on THEN AssignCategories(got.items, box) ELSE <<>>} :
    \E c \in {IF on THEN Compare(selection, session_category_selection, h1.files)
             ELSE [store |-> session_category_selection, files |-> h1.files]} :
    \E h2 \in {IF on /\ press = 2
              THEN Handler(c.store, option, c.files, fails, kind)
              ELSE [files |-> c.files, raised |-> NotRaised, data |-> <<>>]} :
        /\ generate_option' = option
        /\ directory_path' = path
        /\ selectbox' = box
        /\ resolved_path' = r.path
        /\ items' = got.items
        /\ pressed' = IF listed THEN press ELSE 0
        /\ categorized_data' = IF h1.data # <<>> THEN h1.data ELSE h2.data
        /\ download1' = IF on THEN Downloads(option, h1.files) ELSE NoFiles
        /\ category_selection' = selection
        /\ session_category_selection' = c.store
        /\ generated_files' = h2.files
        /\ download2' = IF on /\ h2.raised = NotRaised THEN Downloads(option, h2.files) ELSE NoFiles
        /\ raised' = IF early # NotRaised THEN early
                     ELSE IF h1.raised # NotRaised THEN h1.raised ELSE h2.raised
        /\ UNCHANGED UNC_PATH

(***************************************************************************)
(* What a run can meet: the files on disk, the renderers that fail.        *)
(***************************************************************************)
FileNames == {<<"a.txt">>, <<"b.txt">>}

Stats == {"2024-01-01", "2024-01-02"}

\* the categories the user picks among
Choices == {"CONTRACTUAL", "SAFETY"}

\* the orders in which a directory can list n files of distinct names
Listing(n) ==
    {l \in [1..n -> [name : FileNames, stat : Stats]] :
        \A i, j \in 1..n : i # j => l[i].name # l[j].name}

\* a.txt changes its date, b.txt keeps "2024-01-02"
Dated(l) == \A i \in DOMAIN l : l[i].name = <<"b.txt">> => l[i].stat = "2024-01-02"

\* the directory x holds nothing, or a second a.txt of "2024-01-02"
Trees ==
    {[root |-> a, x |-> b] :
        <<a, b>> \in {q \in UNION {Listing(m) \X Listing(n) : m \in 0..MaxFiles, n \in 0..1} :
                        /\ Len(q[1]) + Len(q[2]) <= MaxFiles
                        /\ Dated(q[1])
                        /\ \A i \in DOMAIN q[2] :
                              q[2][i] = [name |-> <<"a.txt">>, stat |-> "2024-01-02"]}}

OneTree == {[root |-> <<[name |-> <<"a.txt">>, stat |-> "2024-01-01"]>>, x |-> <<>>]}

Kinds == {"ValueError", "Exception"}

NoFailure == {{}}

Failures == {{}} \cup {{f} : f \in FormatSet}

Init ==
    /\ UNC_PATH = None
    /\ directory_path = <<>>
    /\ generate_option = [f \in FormatSet |-> FALSE]
    /\ generated_files = NoFiles
    /\ session_category_selection = <<>>
    /\ selectbox = [i \in 1..MaxFiles |-> Categories[1]]
    /\ touched = {}
    /\ resolved_path = None
    /\ items = <<>>
    /\ category_selection = <<>>
    /\ categorized_data = <<>>
    /\ pressed = 0
    /\ raised = NotRaised
    /\ download1 = NoFiles
    /\ download2 = NoFiles

\* a rerun no widget of the model caused: a reload, a copy button (line 310),
\* a download button
Refresh(trees) ==
    \E tree \in trees :
        /\ Run(generate_option, directory_path, selectbox, 0, tree, {}, None)
        /\ UNCHANGED touched

\* a checkbox of lines 238-242
ToggleOption(formats, trees) ==
    \E f \in formats, tree \in trees :
        /\ Run([generate_option EXCEPT ![f] = ~@], directory_path, selectbox, 0, tree, {}, None)
        /\ UNCHANGED touched

\* the text input of line 220
EnterPath(paths, trees) ==
    \E path \in paths \ {directory_path}, tree \in trees :
        /\ Run(generate_option, path, selectbox, 0, tree, {}, None)
        /\ UNCHANGED touched

\* a selector of line 319, shown by the last run
SelectCategory(trees) ==
    \E index \in 1..Len(items), category \in Choices, tree \in trees :
        /\ category_selection # <<>>
        /\ category # selectbox[index]
        /\ Run(generate_option, directory_path, [selectbox EXCEPT ![index] = category],
               0, tree, {}, None)
        /\ touched' = touched \cup {index}

\* the button of line 258, shown by the last run
PressGenerate1(trees, failures) ==
    \E tree \in trees, fails \in failures, kind \in Kinds :
        /\ items # <<>>
        /\ fails = {} => kind = "ValueError"
        /\ Run(generate_option, directory_path, selectbox, 1, tree, fails, kind)
        /\ UNCHANGED touched

\* the button of line 329, shown by the last run
PressGenerate2(trees, failures) ==
    \E tree \in trees, fails \in failures, kind \in Kinds :
        /\ category_selection # <<>>
        /\ fails = {} => kind = "ValueError"
        /\ Run(generate_option, directory_path, selectbox, 2, tree, fails, kind)
        /\ UNCHANGED touched

(***************************************************************************)
(* Spec: a session over a changing directory, the user working with the    *)
(* Excel checkbox; no renderer fails.                                      *)
(***************************************************************************)
Next ==
    \/ Refresh(Trees)
    \/ ToggleOption({"excel"}, Trees)
    \/ EnterPath({<<>>, <<".">>}, Trees)
    \/ SelectCategory(Trees)
    \/ PressGenerate1(Trees, NoFailure)
    \/ PressGenerate2(Trees, NoFailure)

Spec == Init /\ [][Next]_vars

(***************************************************************************)
(* SpecFormats: a session over one unchanging directory, the user working  *)
(* with the three checkboxes, a renderer failing now and then.             *)
(***************************************************************************)
NextFormats ==
    \/ Refresh(OneTree)
    \/ ToggleOption(FormatSet, OneTree)
    \/ EnterPath({<<>>, <<".">>, <<"q">>}, OneTree)
    \/ SelectCategory(OneTree)
    \/ PressGenerate1(OneTree, Failures)
    \/ PressGenerate2(OneTree, Failures)

SpecFormats == Init /\ [][NextFormats]_vars

(***************************************************************************)
(* SpecPure: the grouping and the renderers applied to every assignment    *)
(* store of at most MaxFiles names, the three formats selected.            *)
(***************************************************************************)
StoreNames == {<<"a.txt">>, <<"b.txt">>, <<"c.txt">>}

Stores ==
    UNION {{d \in [1..n -> [name : StoreNames, modified_time : Stats,
                            category : {Categories[k] : k \in DOMAIN Categories}]] :
              \A i, j \in 1..n : i # j => d[i].name # d[j].name} : n \in 0..MaxFiles}

InitPure ==
    /\ UNC_PATH = None
    /\ directory_path = <<>>
    /\ generate_option = [f \in FormatSet |-> TRUE]
    /\ generated_files = NoFiles
    /\ session_category_selection \in Stores
    /\ selectbox = [i \in 1..MaxFiles |-> Categories[1]]
    /\ touched = {}
    /\ resolved_path = None
    /\ items = <<>>
    /\ category_selection = <<>>
    /\ categorized_data = <<>>
    /\ pressed = 0
    /\ raised = NotRaised
    /\ download1 = NoFiles
    /\ download2 = NoFiles

\* the handler's body applied to the store
GenerateFromStore ==
    /\ categorized_data = <<>>
    /\ \E h \in {Handler(session_category_selection, generate_option, generated_files, {}, None)} :
        /\ categorized_data' = h.data
        /\ generated_files' = h.files
    /\ UNCHANGED <<UNC_PATH, directory_path, generate_option, session_category_selection,
                   selectbox, touched, resolved_path, items, category_selection, pressed,
                   raised, download1, download2>>

NextPure == GenerateFromStore

SpecPure == InitPure /\ [][NextPure]_vars

(***************************************************************************)
(* SpecPath: the first path typed into the empty text input, every text of *)
(* at most MaxPathLen characters, with UNC_PATH unset or set, on a         *)
(* filesystem of two files.                                                *)
(***************************************************************************)
PathChars == {"/", ".", "x", "Z", "Y", ":", "\\"}

PathInputs == UNION {[1..n -> PathChars] : n \in 1..MaxPathLen}

PathTree ==
    [root |-> <<[name |-> <<"a", ".", "x">>, stat |-> "2024-01-01"]>>,
     x |-> <<[name |-> <<"x">>, stat |-> "OSError"]>>]

InitPath ==
    /\ UNC_PATH \in {None, <<"/", "x">>}
    /\ directory_path = <<>>
    /\ generate_option = [f \in FormatSet |-> FALSE]
    /\ generated_files = NoFiles
    /\ session_category_selection = <<>>
    /\ selectbox = [i \in 1..MaxFiles |-> Categories[1]]
    /\ touched = {}
    /\ resolved_path = None
    /\ items = <<>>
    /\ category_selection = <<>>
    /\ categorized_data = <<>>
    /\ pressed = 0
    /\ raised = NotRaised
    /\ download1 = NoFiles
    /\ download2 = NoFiles

TypePath ==
    /\ directory_path = <<>>
    /\ EnterPath(PathInputs, {PathTree})

NextPath == TypePath

SpecPath == InitPath /\ [][NextPath]_vars

(***************************************************************************)
(* The claims.                                                             *)
(***************************************************************************)
Enabled == {f \in FormatSet : generate_option[f]}

Entries(d) == {d[i] : i \in DOMAIN d}

RECURSIVE FileCount(_, _)
FileCount(cd, k) == IF k > Len(cd) THEN 0 ELSE Len(cd[k].items) + FileCount(cd, k + 1)

NonEmpty(cd) == {k \in DOMAIN cd : cd[k].items # <<>>}

\* the (name, modified_time) pairs of the store's entries of one category, in
\* the store's order
OfCategory(store, category) ==
    LET of == SelectSeq(store, LAMBDA e : e.category = category)
    IN  [j \in DOMAIN of |-> <<of[j].name, of[j].modified_time>>]

\* the formats whose renderer the handler ran to completion in the last run
Completed ==
    {Formats[k] : k \in {q \in DOMAIN Formats :
        /\ generate_option[Formats[q]]
        /\ \A j \in 1..q : Formats[j] # raised.at}}

\* C1 (as claimed; SpecPure): for a grouped input with at least one file the
\* sheet written by generate_excel holds the header and, below it, exactly one
\* row per non-empty category and one row per file, none repeated.
C1_ExcelRowsExact ==
    ("excel" \in DOMAIN generated_files /\ FileCount(categorized_data, 1) > 0) =>
        /\ Len(generated_files["excel"].rows)
             = 1 + Cardinality(NonEmpty(categorized_data)) + FileCount(categorized_data, 1)
        /\ generated_files["excel"].rows = <<Headers>> \o DataRows(categorized_data, 1, <<"   ">>)

\* C2 (Spec): in a rerun that reaches the comparison of lines 323-326, a new
\* map equal by value to the stored one leaves the store and every cached
\* buffer as they were; a new map that differs replaces the store and empties
\* generated_files, which then holds only what the handler of line 329
\* generates afterwards.
C2_CompareKeepsOrClears ==
    [][category_selection' # <<>> =>
        IF Entries(category_selection') = Entries(session_category_selection)
        THEN /\ session_category_selection' = session_category_selection
             /\ \A f \in DOMAIN generated_files :
                    f \in DOMAIN generated_files' /\ generated_files'[f] = generated_files[f]
        ELSE /\ session_category_selection' = category_selection'
             /\ generated_files' =
                  IF pressed' = 2
                  THEN [f \in Enabled' |-> Render(f, CategorizedData(session_category_selection'))]
                  ELSE NoFiles]_vars

\* C2's case: a rerun without a Generate press reached the comparison, found
\* the map as stored, and the cached Excel buffer is still there.
C2_Witness ==
    /\ pressed = 0
    /\ Len(category_selection) = 2
    /\ "excel" \in DOMAIN generated_files

\* C3 (SpecPure): the grouping has the six categories as keys in the order of
\* the enum, and each key maps to the (name, modified_time) pairs of the
\* store's entries of that category, in the store's insertion order (an
\* empty sequence when there is none); so each stored name is there once,
\* under its category.
C3_GroupingOfStore ==
    categorized_data # <<>> =>
        /\ Len(categorized_data) = 6
        /\ \A k \in 1..6 : categorized_data[k].category = Categories[k]
        /\ \A k \in 1..6 :
              categorized_data[k].items = OfCategory(session_category_selection, Categories[k])
        /\ FileCount(categorized_data, 1) = Len(session_category_selection)

\* C3's case: a grouping of a store of two names of one category.
C3_Witness ==
    /\ categorized_data # <<>>
    /\ Len(session_category_selection) >= 2
    /\ \E k \in 1..6 : Len(categorized_data[k].items) >= 2

\* C4 (as claimed; SpecFormats): when a renderer raises on a Generate request,
\* every other enabled format is still generated, stored and offered.
C4_FailureIsolated ==
    (pressed # 0 /\ raised.at \in FormatSet) =>
        \A f \in Enabled \ {raised.at} :
            /\ f \in DOMAIN generated_files
            /\ f \in DOMAIN download1 \cup DOMAIN download2

\* C5 (as claimed; Spec): when an export is generated for a listing, the store
\* holds one entry per enumerated file, with the category of the file's own
\* selector, and the grouping one file row per enumerated file.
C5_OneEntryPerFile ==
    pressed = 2 =>
        /\ Len(session_category_selection) = Len(items)
        /\ FileCount(categorized_data, 1) = Len(items)
        /\ \A i \in DOMAIN items :
              [name |-> items[i].name, modified_time |-> items[i].modified_time,
               category |-> selectbox[i]] \in Entries(session_category_selection)

\* C6 (as claimed; Spec): on a Generate request, a listed file whose selector
\* the user never changed is in no category of the grouping.
C6_UntouchedOmitted ==
    pressed # 0 =>
        \A i \in DOMAIN items : i \notin touched =>
            \A k \in DOMAIN categorized_data :
                \A j \in DOMAIN categorized_data[k].items :
                    categorized_data[k].items[j][1] # items[i].name

\* the last file of the listing with the name of file i
LastOfName(its, i) == \A j \in DOMAIN its : j > i => its[j].name # its[i].name

\* C6 (amended; Spec): a listed file whose selector the user never changed is
\* not omitted.  Its selector returns the first option, CONTRACTUAL; on a
\* Generate request whose grouping is built from the map of this listing (the
\* handler of line 329, or the handler of line 258 in a rerun that found the
\* map as stored), the file, unless a later file of the listing has its name,
\* is under CONTRACTUAL in the grouping, under no other category, and in a row
\* of every buffer the request generated.
C6_UntouchedUnderDefault ==
    [][(\/ pressed' = 2
        \/ (/\ pressed' = 1
            /\ category_selection' # <<>>
            /\ session_category_selection' = session_category_selection)) =>
        \A i \in DOMAIN items' : (i \notin touched' /\ LastOfName(items', i)) =>
            /\ \E j \in DOMAIN categorized_data'[1].items :
                  categorized_data'[1].items[j] = <<items'[i].name, items'[i].modified_time>>
            /\ \A k \in 2..6 : \A j \in DOMAIN categorized_data'[k].items :
                  categorized_data'[k].items[j][1] # items'[i].name
            /\ \A f \in Completed' \cap DOMAIN generated_files' :
                  \E q \in DOMAIN generated_files'[f].rows :
                      /\ generated_files'[f].rows[q][2] = <<items'[i].modified_time>>
                      /\ generated_files'[f].rows[q][1]
                           \in {items'[i].name, <<"   ">> \o items'[i].name}]_vars

\* C6's case: an Excel export generated by the button of line 329 for two
\* files, the first with an untouched selector, the second with a changed one.
C6_Witness ==
    /\ pressed = 2
    /\ Len(items) = 2
    /\ items[1].name # items[2].name
    /\ touched = {2}
    /\ selectbox[2] # Categories[1]
    /\ "excel" \in DOMAIN generated_files

\* C7 (as claimed; SpecPath): the base path is replaced by original_path only
\* where it is the prefix of the absolute path, and the rest of the absolute
\* path is unchanged: a record whose absolute path starts with the base path
\* has original_path followed by the rest, and no other record's path is
\* touched.
C7_RelativeIsPrefixSwap ==
    \A i \in DOMAIN items :
        IF StartsWith(items[i].full_path, resolved_path)
        THEN items[i].relative_full_path
               = directory_path \o Drop(items[i].full_path, Len(resolved_path))
        ELSE items[i].relative_full_path = items[i].full_path

\* C8 (as claimed; SpecPath): a typed path for which resolve_path returns no
\* path ended in ValueError, which the script catches; nothing else escapes.
C8_InvalidPathIsValueError ==
    (directory_path # <<>> /\ resolved_path = None) =>
        raised = [kind |-> "ValueError", at |-> "resolve_path"]

\* C9 (as claimed; SpecFormats): after a Generate press generated_files holds
\* buffers only for the formats enabled in that press.
C9_PressDiscardsAll ==
    pressed # 0 => DOMAIN generated_files \subseteq Enabled

\* C9 (amended; SpecFormats): a Generate press discards nothing.  In a rerun
\* with a Generate press that leaves the assignment map as stored, every
\* buffer cached before is still cached, unchanged, after it (also the buffer
\* of a format unchecked at the press, which a later re-check offers again);
\* what the press adds are the buffers of the enabled formats whose renderer
\* ran to completion, rendered from the store.
C9_PressKeepsOthers ==
    [][(pressed' # 0 /\ session_category_selection' = session_category_selection) =>
        /\ \A f \in DOMAIN generated_files :
              f \in DOMAIN generated_files' /\ generated_files'[f] = generated_files[f]
        /\ DOMAIN generated_files' = DOMAIN generated_files \cup Completed'
        /\ \A f \in Completed' :
              generated_files'[f] = Render(f, CategorizedData(session_category_selection'))]_vars

\* C9's case: after a press that generated one format, the buffer of another,
\* unchecked format is still cached.
C9_Witness ==
    /\ pressed # 0
    /\ raised = NotRaised
    /\ \E f \in Enabled : f \in DOMAIN generated_files
    /\ \E f \in DOMAIN generated_files : f \notin Enabled

\* C10 (as claimed; Spec): every buffer a rerun generates or offers for
\* download, in the block before the Assign Categories loop and in the block
\* after it, is rendered from the assignment store as it stands at the end of
\* the rerun.
C10_OfferedFromFinalStore ==
    /\ \A f \in DOMAIN download1 :
          download1[f] = Render(f, CategorizedData(session_category_selection))
    /\ \A f \in DOMAIN download2 :
          download2[f] = Render(f, CategorizedData(session_category_selection))
    /\ pressed # 0 => categorized_data = CategorizedData(session_category_selection)

====
